---- MODULE Spec2Model ----
(***************************************************************************)
(* State-machine model of theorem_17.ipynb: the DiophantineSolver sweep,   *)
(* the PellSolver sample extraction and the recurrence loop of             *)
(* run_full_solver.                                                        *)
(*                                                                         *)
(* sp.diophantine is a library call.  For the elliptic equation of the     *)
(* enumerator it is modelled by the finite set of all integer solutions;   *)
(* for the two Pell equations by the integer solutions inside a search     *)
(* window.  The order in which Python iterates over a returned set is not  *)
(* fixed by the source; it is a function of the set, so a later pass over  *)
(* the same set follows the order of the first pass.                       *)
(***************************************************************************)
EXTENDS Integers, Sequences, FiniteSets

VARIABLES
    z,                    \* input z
    max_n,                \* input max_n
    max_solutions_per_n,  \* input max_solutions_per_n
    iterations,           \* input iterations
    pc,                   \* position in solve / run_full_solver
    results_df,           \* DiophantineSolver.results_df: rows [x, y, n]
    n,                    \* loop variable of solve
    iter_order,           \* per n, the order in which its solution set iterates
    late_exams,           \* candidates examined with count already at the cap
    runs,                 \* number of calls of solve on this object
    first_table,          \* table returned by the first call of solve
    last_table,           \* table returned by the latest call of solve
    pell_results,         \* PellSolver.results: eq1, eq2 (<<>> is None)
    uv_vec,               \* run_full_solver: uv_vec
    k,                    \* run_full_solver: completed loop iterations
    columns,              \* recurrence columns of results_df: [label, triples]
    returned              \* return value of run_full_solver (<<>> until it returns)

vars == <<z, max_n, max_solutions_per_n, iterations, pc, results_df, n,
          iter_order, late_exams, runs, first_table, last_table,
          pell_results, uv_vec, k, columns, returned>>

params == <<z, max_n, max_solutions_per_n, iterations>>
solver == <<results_df, n, iter_order, late_exams, runs, first_table, last_table>>
loopv  == <<pell_results, uv_vec, k, columns, returned>>

----------------------------------------------------------------------------
(* Bounds of the model *)

MaxZ == 3
MaxN == 9
MaxCap == 2
MaxIter == 3
MaxRuns == 2
MaxPell == 10

----------------------------------------------------------------------------
(* Integer and sequence helpers *)

Abs(i) == IF i < 0 THEN -i ELSE i

RECURSIVE SqrtSearch(_, _, _)
SqrtSearch(m, lo, hi) ==
    IF lo >= hi THEN lo
    ELSE LET mid == (lo + hi + 1) \div 2
         IN IF mid * mid <= m THEN SqrtSearch(m, mid, hi)
                              ELSE SqrtSearch(m, lo, mid - 1)

\* floor of the square root of m >= 0
ISqrt(m) == SqrtSearch(m, 0, IF m < 46340 THEN m ELSE 46340)

\* the elements of S in one fixed order
RECURSIVE SeqOf(_)
SeqOf(S) ==
    IF S = {} THEN <<>>
    ELSE LET e == CHOOSE e \in S : TRUE IN <<e>> \o SeqOf(S \ {e})

\* every ordering of the elements of S
RECURSIVE Perms(_)
Perms(S) ==
    IF S = {} THEN {<<>>}
    ELSE UNION {{<<e>> \o q : q \in Perms(S \ {e})} : e \in S}

----------------------------------------------------------------------------
(* DiophantineSolver *)

mod_val == 32 * z
x_constraint == 0
y_constraint == 16 * z

\* rhs of the equation built in _solve_for_n
rhs(nn) == 512 * nn * z * z

\* sp.diophantine(Eq(x**2 + 2*z*y**2, rhs)): every integer solution
diophantine(nn) ==
    LET yb == ISqrt(rhs(nn) \div (2 * z))
    IN  UNION { LET r == rhs(nn) - 2 * z * yv * yv
                    s == ISqrt(r)
                IN  IF s * s = r THEN {<<s, yv>>, <<-s, yv>>} ELSE {}
              : yv \in (-yb)..yb }

satisfies_constraints_noY(x_val, y_val) ==
    /\ x_val >= 0
    /\ y_val >= 0
    /\ x_val % mod_val = x_constraint

satisfies_constraints(x_val, y_val) ==
    /\ x_val >= 0
    /\ y_val >= 0
    /\ x_val % mod_val = x_constraint
    /\ y_val % mod_val = y_constraint

\* the orders in which "for sol in solutions" can yield the set S.  The
\* candidates that fail the constraints are only skipped, so they are kept
\* together in one fixed order, before or after the candidates that pass;
\* the passing ones come in any order.
IterationOrders(S) ==
    LET failing == SeqOf({s \in S : ~satisfies_constraints(s[1], s[2])})
        passing == {s \in S : satisfies_constraints(s[1], s[2])}
    IN  {q \o failing : q \in Perms(passing)} \cup
        {failing \o q : q \in Perms(passing)}

\* the for loop of _solve_for_n from position i of order on: the pairs it
\* appends to the table and the number of candidates it examined although
\* count had reached the cap
RECURSIVE ForLoop(_, _, _, _, _, _)
ForLoop(order, i, cnt, sn, out, late) ==
    IF i > Len(order) THEN [emitted |-> out, late |-> late]
    ELSE LET sol == order[i]
             accept == satisfies_constraints(sol[1], sol[2]) /\ sol \notin sn
             cnt2 == IF accept THEN cnt + 1 ELSE cnt
             out2 == IF accept THEN Append(out, sol) ELSE out
             sn2 == IF accept THEN sn \cup {sol} ELSE sn
             late2 == IF cnt >= max_solutions_per_n THEN late + 1 ELSE late
         IN  IF cnt2 >= max_solutions_per_n
             THEN [emitted |-> out2, late |-> late2]
             ELSE ForLoop(order, i + 1, cnt2, sn2, out2, late2)

Init ==
    /\ z \in 1..MaxZ
    /\ max_n \in 0..MaxN
    /\ max_solutions_per_n \in 0..MaxCap
    /\ iterations \in (-1)..MaxIter
    /\ pc = "new"
    /\ results_df = <<>>
    /\ n = 0
    /\ iter_order = <<>>
    /\ late_exams = 0
    /\ runs = 0
    /\ first_table = <<>>
    /\ last_table = <<>>
    /\ pell_results = [eq1 |-> <<>>, eq2 |-> <<>>]
    /\ uv_vec = <<0, 0>>
    /\ k = 0
    /\ columns = <<>>
    /\ returned = <<>>

\* solve() is entered: run_full_solver calls it once on a new object; the
\* class lets a caller invoke it again on the same object.
Solve ==
    /\ pc \in {"new", "solved"}
    /\ runs < MaxRuns
    /\ runs' = runs + 1
    /\ n' = 1
    /\ pc' = "solve"
    /\ UNCHANGED <<params, results_df, iter_order, late_exams, first_table,
                   last_table, loopv>>

\* solve(): _solve_for_n(n) for the next n of range(1, max_n + 1)
SolveForN ==
    /\ pc = "solve"
    /\ n <= max_n
    /\ \E order \in IF n <= Len(iter_order) THEN {iter_order[n]}
                                            ELSE IterationOrders(diophantine(n)) :
         LET res == ForLoop(order, 1, 0, {}, <<>>, 0)
         IN  /\ results_df' = results_df \o
                    [i \in 1..Len(res.emitted) |->
                        [x |-> res.emitted[i][1], y |-> res.emitted[i][2], n |-> n]]
             /\ late_exams' = late_exams + res.late
             /\ iter_order' = IF n <= Len(iter_order) THEN iter_order
                                                      ELSE Append(iter_order, order)
    /\ n' = n + 1
    /\ UNCHANGED <<params, pc, runs, first_table, last_table, loopv>>

\* solve(): return self.results_df
SolveReturn ==
    /\ pc = "solve"
    /\ n > max_n
    /\ pc' = "solved"
    /\ last_table' = results_df
    /\ first_table' = IF runs = 1 THEN results_df ELSE first_table
    /\ UNCHANGED <<params, results_df, n, iter_order, late_exams, runs, loopv>>

----------------------------------------------------------------------------
(* PellSolver *)

\* right-hand side of eq1 as the documentation (markdown heading) states it
Eq1RhsDocumented(zz) == 2 * zz + 1

\* right-hand side of eq1 in PellSolver.solve
Eq1Rhs(zz) == 2 * zz

\* right-hand side of eq2 in PellSolver.solve
Eq2Rhs == 0 - 2

\* sp.diophantine(Eq(p**2 - 2*q**2, c)): integer solutions in the search window
PellSolutions(c) ==
    {s \in ((-MaxPell)..MaxPell) \X ((-MaxPell)..MaxPell) :
        s[1] * s[1] - 2 * s[2] * s[2] = c}

extract_sample_solution_no_abs(solns) ==
    IF solns = {} THEN {<<>>}
    ELSE {<<s[1], s[2]>> : s \in solns}

\* the values _extract_sample_solution can return for solns (<<>> is None)
extract_sample_solution(solns) ==
    IF solns = {} THEN {<<>>}
    ELSE {<<Abs(s[1]), Abs(s[2])>> : s \in solns}

\* run_full_solver: "not pell_results.get('eq1') or not pell_results.get('eq2')"
NoPellSolutions ==
    Len(pell_results.eq1) = 0 \/ Len(pell_results.eq2) = 0

\* run_full_solver: pell_solver.solve()
PellSolve ==
    /\ pc = "solved"
    /\ \E e1 \in extract_sample_solution(PellSolutions(Eq1Rhs(z))),
          e2 \in extract_sample_solution(PellSolutions(Eq2Rhs)) :
         pell_results' = [eq1 |-> e1, eq2 |-> e2]
    /\ pc' = "pell"
    /\ UNCHANGED <<params, solver, uv_vec, k, columns, returned>>

----------------------------------------------------------------------------
(* run_full_solver *)

EmptyFrameKeepRows == [records |-> results_df, columns |-> <<>>]

\* pd.DataFrame()
EmptyFrame == [records |-> <<>>, columns |-> <<>>]

\* "No Pell solutions found.": return pd.DataFrame()
NoPellReturn ==
    /\ pc = "pell"
    /\ NoPellSolutions
    /\ returned' = EmptyFrame
    /\ pc' = "done"
    /\ UNCHANGED <<params, solver, pell_results, uv_vec, k, columns>>

\* a, b, u, v are unpacked and uv_vec is set up
LoopEnter ==
    /\ pc = "pell"
    /\ ~NoPellSolutions
    /\ uv_vec' = pell_results.eq2
    /\ k' = 0
    /\ pc' = "loop"
    /\ UNCHANGED <<params, solver, pell_results, columns, returned>>

denom == 32 * z
numer_const == 16 * z

\* the triple of one row (<<>> is None)
Triple(row, a, b, u_n, v_n) ==
    IF ~(row.x % denom = 0 /\ (row.y - numer_const) % denom = 0)
    THEN <<>>
    ELSE LET x_k == row.x \div denom
             y_k == (row.y - numer_const) \div denom
             term1 == (2 * y_k + 1) * (b * u_n + a * v_n)
             term2 == 2 * x_k
         IN  << (term1 + term2) \div 2,
                (term1 - term2) \div 2,
                ((2 * y_k + 1) * (a * u_n + 2 * b * v_n)) \div 2 >>

\* results_df[col_name] = triples: a new label appends a column, a label
\* already present has its column replaced
SetColumn(cols, label, triples) ==
    IF \E i \in 1..Len(cols) : cols[i].label = label
    THEN [i \in 1..Len(cols) |->
            IF cols[i].label = label THEN [label |-> label, triples |-> triples]
                                     ELSE cols[i]]
    ELSE Append(cols, [label |-> label, triples |-> triples])

TWrongEntry(uv) == <<3 * uv[1] + 4 * uv[2], 2 * uv[1] + 2 * uv[2]>>

\* T @ uv_vec with T = [[3, 4], [2, 3]]
T(uv) == <<3 * uv[1] + 4 * uv[2], 2 * uv[1] + 3 * uv[2]>>

AdvanceSkipped(uv) == uv

\* uv_vec = T @ uv_vec
Advance(uv) == T(uv)

\* one iteration of "for _ in range(iterations)"
LoopIter ==
    /\ pc = "loop"
    /\ k < iterations
    /\ LET a == pell_results.eq1[1]
           b == pell_results.eq1[2]
           u_n == uv_vec[1]
           v_n == uv_vec[2]
           triples == [i \in 1..Len(results_df) |->
                          Triple(results_df[i], a, b, u_n, v_n)]
       IN  columns' = SetColumn(columns, <<u_n, v_n>>, triples)
    /\ uv_vec' = Advance(uv_vec)
    /\ k' = k + 1
    /\ UNCHANGED <<params, pc, solver, pell_results, returned>>

\* return dio_solver.results_df
Return ==
    /\ pc = "loop"
    /\ k >= iterations
    /\ returned' = [records |-> results_df, columns |-> columns]
    /\ pc' = "done"
    /\ UNCHANGED <<params, solver, pell_results, uv_vec, k, columns>>

Next ==
    \/ Solve
    \/ SolveForN
    \/ SolveReturn
    \/ PellSolve
    \/ NoPellReturn
    \/ LoopEnter
    \/ LoopIter
    \/ Return

Spec == Init /\ [][Next]_vars

----------------------------------------------------------------------------
(* Properties *)

InvalidParameter ==
    z < 1 \/ max_n < 1 \/ max_solutions_per_n < 1 \/ iterations < 0

IsPell2(uv) == uv[1] * uv[1] - 2 * uv[2] * uv[2] = 0 - 2

\* the k-th state of the recurrence (u, v) -> (3u + 4v, 2u + 3v) from base
RECURSIVE RecState(_, _)
RecState(base, j) ==
    IF j = 0 THEN base
    ELSE LET p == RecState(base, j - 1)
         IN  <<3 * p[1] + 4 * p[2], 2 * p[1] + 3 * p[2]>>

\* the distinct (x, y) pairs the table holds for nn
PairsOf(nn) ==
    {<<results_df[i].x, results_df[i].y>> :
        i \in {j \in 1..Len(results_df) : results_df[j].n = nn}}

\* C1: every record (x, y, n) of the result table has n in 1..max_n and
\* satisfies x^2 + 2*z*y^2 = 512*n*z^2, x >= 0, y >= 0, x mod 32z = 0 and
\* y mod 32z = 16z, in every reachable state of the table.
C1_RecordsSatisfyEquationAndConstraints ==
    \A i \in 1..Len(results_df) :
        LET r == results_df[i]
        IN  /\ r.n \in 1..max_n
            /\ r.x * r.x + 2 * z * r.y * r.y = 512 * r.n * z * z
            /\ r.x >= 0
            /\ r.y >= 0
            /\ r.x % (32 * z) = 0
            /\ r.y % (32 * z) = 16 * z

\* C1 witness: on valid parameters the sweep has emitted a record with
\* x > 0 and a record with x = 0
C1_Witness ==
    /\ ~InvalidParameter
    /\ \E i \in 1..Len(results_df) : results_df[i].x > 0
    /\ \E i \in 1..Len(results_df) : results_df[i].x = 0

C3_RecurrenceStateInvariant ==
    (pc \in {"loop", "done"} /\ ~NoPellSolutions) =>
        /\ uv_vec = RecState(pell_results.eq2, k)
        /\ IsPell2(pell_results.eq2) => IsPell2(uv_vec)

\* C3 witness: the loop has advanced the state at least twice
C3_Witness ==
    ~InvalidParameter /\ pc = "loop" /\ k >= 2 /\ uv_vec[1] > 4

\* C4 (as claimed): the result table of a solver with valid parameters
\* never holds the same (x, y) pair twice for the same n.
C4_NoDuplicateRecords ==
    ~InvalidParameter =>
        \A i, j \in 1..Len(results_df) :
            (i # j) => (results_df[i] # results_df[j])

\* Within the first call of solve no record repeats: seen, and the library
\* returning a set, keep one call of _solve_for_n free of duplicates.
NoDuplicatesWithinOneRun ==
    runs <= 1 =>
        \A i, j \in 1..Len(results_df) :
            (i # j) => (results_df[i] # results_df[j])

\* C5 (as claimed): for every n in 1..max_n the table holds at most
\* max_solutions_per_n distinct (x, y) pairs, and no further candidate is
\* examined for an n once count has reached the cap.
C5_CapRespected ==
    /\ \A nn \in 1..max_n : Cardinality(PairsOf(nn)) <= max_solutions_per_n
    /\ late_exams = 0

\* With a cap of at least 1 the bound and the early stop of C5 hold.
CapRespectedForPositiveCap ==
    max_solutions_per_n >= 1 =>
        /\ \A nn \in 1..max_n : Cardinality(PairsOf(nn)) <= max_solutions_per_n
        /\ late_exams = 0

\* the cap cuts a sweep short: n = 9 has two passing pairs for z = 1
CapCutsShort ==
    /\ max_solutions_per_n = 1
    /\ z = 1
    /\ n > 9
    /\ Cardinality(PairsOf(9)) = 1

\* C6 (as claimed): every run of solve on valid parameters returns the same
\* ordered table as the first run.
C6_SolveIdempotent ==
    (~InvalidParameter /\ pc = "solved") => last_table = first_table

\* C7: with N = iterations >= 0 and Pell samples found, the returned table
\* has exactly N recurrence columns, the j-th labelled by the (j-1)-th
\* recurrence state; the labels are pairwise distinct and each satisfies
\* u^2 - 2*v^2 = -2.  During the loop there is one column per iteration.
C7_ExactlyNColumns ==
    /\ pc = "loop" => Len(columns) = k
    /\ (pc = "done" /\ ~NoPellSolutions /\ iterations >= 0) =>
          /\ Len(returned.columns) = iterations
          /\ \A i \in 1..Len(returned.columns) :
                /\ returned.columns[i].label = RecState(pell_results.eq2, i - 1)
                /\ IsPell2(returned.columns[i].label)
                /\ Len(returned.columns[i].triples) = Len(returned.records)
          /\ \A i, j \in 1..Len(returned.columns) :
                (i # j) => returned.columns[i].label # returned.columns[j].label

\* C7 witness: a run returned with two or more columns over a non-empty table
C7_Witness ==
    /\ ~InvalidParameter
    /\ pc = "done"
    /\ iterations >= 2
    /\ Len(returned.columns) = iterations
    /\ Len(returned.records) > 0

\* C8: when the Pell finder returns no sample for either equation, the run
\* returns a table with no records and no recurrence columns, and no loop
\* iteration has been executed.
C8_NoPellEmptyResult ==
    (pc = "done" /\ NoPellSolutions) =>
        /\ returned.records = <<>>
        /\ returned.columns = <<>>
        /\ k = 0
        /\ columns = <<>>

\* C8 witness: a run ended without Pell samples although the enumerator
\* found records and iterations were requested
C8_Witness ==
    /\ ~InvalidParameter
    /\ pc = "done"
    /\ NoPellSolutions
    /\ Len(results_df) > 0
    /\ iterations > 0

\* C9 (as claimed): with z < 1, max_n < 1, max_solutions_per_n < 1 or
\* iterations < 0 no solving is done: no _solve_for_n call has iterated over
\* a solution set, no Pell search was made and no loop iteration has run.
C9_InvalidParameterRejected ==
    InvalidParameter =>
        /\ Len(iter_order) = 0
        /\ pc \notin {"pell", "loop", "done"}
        /\ k = 0

\* C10: for every record and every recurrence iteration, term1 + term2,
\* term1 - term2 and (2*y_k + 1)*(a*u_k + 2*b*v_k) are even, so each stored
\* triple is the exact half: the floor division truncates nothing.
C10_DivisionsExact ==
    (pc \in {"loop", "done"} /\ ~NoPellSolutions) =>
        \A c \in 1..Len(columns) : \A i \in 1..Len(results_df) :
            LET a == pell_results.eq1[1]
                b == pell_results.eq1[2]
                u_k == columns[c].label[1]
                v_k == columns[c].label[2]
                x_k == results_df[i].x \div (32 * z)
                y_k == (results_df[i].y - 16 * z) \div (32 * z)
                term1 == (2 * y_k + 1) * (b * u_k + a * v_k)
                term2 == 2 * x_k
                zn == (2 * y_k + 1) * (a * u_k + 2 * b * v_k)
                t == columns[c].triples[i]
            IN  /\ (term1 + term2) % 2 = 0
                /\ (term1 - term2) % 2 = 0
                /\ zn % 2 = 0
                /\ Len(t) = 3
                /\ 2 * t[1] = term1 + term2
                /\ 2 * t[2] = term1 - term2
                /\ 2 * t[3] = zn

\* C10 witness: a column of triples was built for a record with x > 0
C10_Witness ==
    /\ ~InvalidParameter
    /\ pc = "loop"
    /\ Len(columns) >= 2
    /\ \E i \in 1..Len(results_df) : results_df[i].x > 0

====
